---------------------------- MODULE Spec2Model ----------------------------
(***************************************************************************)
(* Model of gateway/connections/state.go: the per-target connection        *)
(* lifecycle (TargetState).  One connectWithLock goroutine per instance,   *)
(* a semaphore of connection slots per process, one lock per target        *)
(* identity shared by the whole fleet, the gNMI reconnect client that      *)
(* connect() blocks in, and the cache sink (cache.Target) the update       *)
(* handler and the disconnect callback call.                               *)
(***************************************************************************)
EXTENDS Naturals, Integers, Sequences, FiniteSets, TLC

\* ------------------------------------------------------------- bounds ---
\* Capacity of the connection slot semaphore of every process.
Capacity == 1
\* Transport events (messages, dial failures, drops, reconnect() calls)
\* the environment may produce in a fleet run, and in a one-target run.
FleetBudget == 1
OneBudget == 3

\* The TargetState instances of the fleet: instances 1 and 2 are two gateway
\* processes that run connectWithLock for the same target; instances 1 and 3
\* are two targets of the same process.
Inst == {1, 2, 3}
Proc == {"p1", "p2"}
Targets == {"tA", "tB"}
NoInst == 0
procOf(i) == IF i = 2 THEN "p2" ELSE "p1"
targetOf(i) == IF i = 3 THEN "tB" ELSE "tA"
\* TargetState.name
name(i) == targetOf(i)

VARIABLES
    insts,      \* the TargetState instances that were constructed
    pc,         \* where the connectWithLock goroutine of each instance is
    slotAcq,    \* connectionSlotAcquired (local of connectWithLock)
    lockAcq,    \* connectionLockAcquired (local of connectWithLock)
    stopped,    \* TargetState.stopped
    connecting, \* TargetState.connecting
    connected,  \* TargetState.connected
    client,     \* TargetState.client: "nil", "open" or "closed"
    conn,       \* state of the subscription inside client.Subscribe
    setupOk,    \* per target: whether NewQuery(t.request) and query.Validate()
                \* succeed on its configured request and addresses
    sem,        \* permits taken from the connection slot semaphore, per process
    lockOwner,  \* holder of the lock of each target (NoInst: free)
    crashed,    \* processes ended by an unrecovered panic
    sink,       \* calls the cache sink (targetCache) of each instance received
    budget,     \* transport events the environment may still produce
    again,      \* history: disconnect() was called on a stopped instance
    probe       \* inputs and result of a pure-function call (Equal, rejectUpdate)

vars == <<insts, pc, slotAcq, lockAcq, stopped, connecting, connected, client,
          conn, setupOk, sem, lockOwner, crashed, sink, budget, again, probe>>

\* ------------------------------------------- targets and Equal (67-83) ---
\* A target descriptor (targetpb.Target): its addresses in order and its
\* credentials, which are a pointer that may be nil.
MaxAddrs == 2
Addrs == {"a1", "a2"}
Users == {"u1", "u2"}
Passwords == {"p1", "p2"}
NilCreds == [isNil |-> TRUE, Username |-> "", Password |-> ""]
Creds == {NilCreds} \cup
         {[isNil |-> FALSE, Username |-> u, Password |-> p] :
             u \in Users, p \in Passwords}
\* The address sequences of up to n addresses.
AddrSeqs(n) == UNION {[1..k -> Addrs] : k \in 0..n}

\* The loop of lines 71-75: the first index from k on where the addresses
\* differ decides.
RECURSIVE addrsDifferFrom(_, _, _)
addrsDifferFrom(a, b, k) ==
    IF k > Len(a) THEN FALSE
    ELSE IF b[k] # a[k] THEN TRUE
    ELSE addrsDifferFrom(a, b, k + 1)

\* TargetState.Equal: "true", "false", or "panic" when line 76 reads
\* .Username through a nil Credentials pointer of either side.
Equal(t, other) ==
    IF Len(t.Addresses) # Len(other.Addresses) THEN "false"
    ELSE IF addrsDifferFrom(t.Addresses, other.Addresses, 1) THEN "false"
    ELSE IF t.Credentials.isNil \/ other.Credentials.isNil THEN "panic"
    ELSE IF t.Credentials.Username # other.Credentials.Username THEN "false"
    ELSE IF t.Credentials.Password # other.Credentials.Password THEN "false"
    ELSE "true"

\* --------------------------------------- paths and rejectUpdate (211-235) ---
\* A path element (gnmipb.PathElem): its name and the value its Key map
\* holds for "name" (NoKey: the map has no such key).
MaxPathLen == 2
NoKey == "<absent>"
ElemNames == {"interfaces", "interface", "network-instances",
              "network-instance", "netconf-state", "system"}
KeyValues == {NoKey, "interface", "network-instance", "eth0"}
Elems == [name : ElemNames, key : KeyValues]
\* The paths of up to n elements.
Paths(n) == UNION {[1..k -> Elems] : k \in 0..n}

Elem(n, k) == [name |-> n, key |-> k]
GoodPath == <<Elem("interfaces", NoKey), Elem("interface", "eth0")>>
BadPath == <<Elem("netconf-state", NoKey), Elem("system", NoKey)>>

NoErr == "nil"

\* Lines 213-232 for the path of one update: the error it returns, or NoErr.
rejectPath(path) ==
    IF Len(path) >= 2 THEN
        IF /\ path[1].name = "interfaces" /\ path[2].name = "interface"
           /\ path[2].key # NoKey /\ path[2].key = "interface"
        THEN "bug for Arista interface path"
        ELSE IF /\ path[1].name = "network-instances"
                /\ path[2].name = "network-instance"
                /\ path[2].key # NoKey /\ path[2].key = "network-instance"
        THEN "bug for Arista isis adjacency path"
        ELSE IF path[1].name = "netconf-state"
        THEN "bug for netconf-state path"
        ELSE NoErr
    ELSE NoErr

\* The loop of line 212 from update k on: the first error ends it.
RECURSIVE rejectFrom(_, _)
rejectFrom(upd, k) ==
    IF k > Len(upd) THEN NoErr
    ELSE IF rejectPath(upd[k]) # NoErr THEN rejectPath(upd[k])
    ELSE rejectFrom(upd, k + 1)

\* rejectUpdate with a fault: the key of the list element is not looked at.
rejectUpdateAnyKey(notification) ==
    IF \E k \in 1..Len(notification.upd) :
          LET path == notification.upd[k] IN
          /\ Len(path) >= 2
          /\ \/ path[1].name = "interfaces" /\ path[2].name = "interface"
             \/ path[1].name = "network-instances"
                /\ path[2].name = "network-instance"
             \/ path[1].name = "netconf-state"
    THEN "bug" ELSE NoErr

\* TargetState.rejectUpdate: the error, or NoErr, for a notification
\* [prefix, upd], upd the paths of its updates in order.
rejectUpdate(notification) == rejectFrom(notification.upd, 1)

\* ------------------------------------------------ handleUpdate (172-209) ---
\* A notification is [prefix, upd]: prefix is NilPrefix (no prefix path) or
\* the Target of the prefix path ("" when unset).
NilPrefix == "<nil>"
NoNote == [prefix |-> NilPrefix, upd |-> <<>>]
Prefixes == {NilPrefix, "", "other"}
\* The messages the transport hands to handleUpdate: a SubscribeResponse
\* with an update, a sync response, an error, a response of no known kind,
\* and a message that is no SubscribeResponse.
UpdateMsgs == {[kind |-> "Update", note |-> [prefix |-> p, upd |-> u]] :
                  p \in Prefixes,
                  u \in {<<GoodPath>>, <<GoodPath, BadPath>>}}
OtherMsgs == {[kind |-> k, note |-> NoNote] :
                 k \in {"SyncResponse", "Error", "Unknown", "NotSubscribeResponse"}}
Msgs == UpdateMsgs \cup OtherMsgs

\* A call the cache sink receives.
Call(op) == [op |-> op, note |-> NoNote]
GnmiUpdateCall(n) == [op |-> "GnmiUpdate", note |-> n]

\* Lines 186-191: a missing prefix becomes an empty path, an empty Target
\* becomes the name of the TargetState.
defaultPrefix(n, nm) ==
    LET p1 == IF n.prefix = NilPrefix THEN "" ELSE n.prefix
        p2 == IF p1 = "" THEN nm ELSE p1
    IN  [n EXCEPT !.prefix = p2]

\* handleUpdate with a fault: the Target of the prefix is always overwritten.
handleUpdateOverwritingPrefix(nm, isConnected, msg, sinkErr) ==
    LET first == IF ~isConnected THEN <<Call("Connect")>> ELSE <<>>
        n == [msg.note EXCEPT !.prefix = nm]
    IN  IF msg.kind = "Update" /\ rejectUpdate(n) = NoErr
        THEN [connected |-> TRUE, calls |-> first \o <<GnmiUpdateCall(n)>>,
              err |-> sinkErr]
        ELSE [connected |-> TRUE, calls |-> first,
              err |-> msg.kind \notin {"Update", "SyncResponse"}]

\* handleUpdate with a fault: Connect is sent for every message.
handleUpdateAlwaysConnect(nm, isConnected, msg, sinkErr) ==
    LET n == defaultPrefix(msg.note, nm)
    IN  IF msg.kind = "Update" /\ rejectUpdate(n) = NoErr
        THEN [connected |-> TRUE,
              calls |-> <<Call("Connect"), GnmiUpdateCall(n)>>, err |-> sinkErr]
        ELSE [connected |-> TRUE, calls |-> <<Call("Connect")>>,
              err |-> msg.kind \notin {"Update", "SyncResponse"}]

\* handleUpdate with a fault: line 194 returns the error of rejectUpdate
\* in place of nil.
handleUpdateRejectIsError(nm, isConnected, msg, sinkErr) ==
    LET first == IF ~isConnected THEN <<Call("Connect")>> ELSE <<>>
    IN  CASE msg.kind = "Update" ->
               LET n == defaultPrefix(msg.note, nm)
               IN  IF rejectUpdate(n) # NoErr
                   THEN [connected |-> TRUE, calls |-> first, err |-> TRUE]
                   ELSE [connected |-> TRUE,
                         calls |-> first \o <<GnmiUpdateCall(n)>>,
                         err |-> sinkErr]
          [] msg.kind = "SyncResponse" ->
               [connected |-> TRUE, calls |-> first \o <<Call("Sync")>>,
                err |-> FALSE]
          [] OTHER ->
               [connected |-> TRUE, calls |-> first, err |-> TRUE]

\* TargetState.handleUpdate for the TargetState named nm whose connected
\* flag is isConnected, on msg, sinkErr telling whether GnmiUpdate fails:
\* the new connected flag, the calls made to the sink in order, and whether
\* an error is returned.
handleUpdate(nm, isConnected, msg, sinkErr) ==
    LET first == IF ~isConnected THEN <<Call("Connect")>> ELSE <<>>
    IN  CASE msg.kind = "NotSubscribeResponse" ->
               [connected |-> TRUE, calls |-> first, err |-> TRUE]
          [] msg.kind = "Update" ->
               LET n == defaultPrefix(msg.note, nm)
               IN  IF rejectUpdate(n) # NoErr
                   THEN [connected |-> TRUE, calls |-> first, err |-> FALSE]
                   ELSE [connected |-> TRUE,
                         calls |-> first \o <<GnmiUpdateCall(n)>>,
                         err |-> sinkErr]
          [] msg.kind = "SyncResponse" ->
               [connected |-> TRUE, calls |-> first \o <<Call("Sync")>>,
                err |-> FALSE]
          [] msg.kind = "Error" ->
               [connected |-> TRUE, calls |-> first, err |-> TRUE]
          [] OTHER ->
               [connected |-> TRUE, calls |-> first, err |-> TRUE]

\* TargetState.disconnected (157-162): the calls the callback makes.
disconnectedCalls == <<Call("Disconnect"), Call("Reset")>>

\* ------------------------------------------------------- initial states ---
NoProbe == [fn |-> "none"]

InitWith(I, b) ==
    /\ insts = I
    /\ pc = [i \in Inst |-> IF i \in I THEN "loop" ELSE "none"]
    /\ slotAcq = [i \in Inst |-> FALSE]
    /\ lockAcq = [i \in Inst |-> FALSE]
    /\ stopped = [i \in Inst |-> FALSE]
    /\ connecting = [i \in Inst |-> FALSE]
    /\ connected = [i \in Inst |-> FALSE]
    /\ client = [i \in Inst |-> "nil"]
    /\ conn = [i \in Inst |-> "none"]
    /\ setupOk \in {f \in [Targets -> BOOLEAN] :
                       \A t \in Targets \ {targetOf(i) : i \in I} : f[t]}
    /\ sem = [p \in Proc |-> 0]
    /\ lockOwner = [t \in Targets |-> NoInst]
    /\ crashed = [p \in Proc |-> FALSE]
    /\ sink = [i \in Inst |-> <<>>]
    /\ budget = b
    /\ again = [i \in Inst |-> FALSE]
    /\ probe = NoProbe

\* The fleet: every instance was constructed and its goroutine started.
Init == InitWith(Inst, FleetBudget)
\* One target, one process.
InitOne == InitWith({1}, OneBudget)

\* ------------------------------------------ connectWithLock (127-149) ---
\* Lines 130-148 with a fault: lines 143-145 are missing, the loop is left
\* without releasing the slot.
LoopTestKeepingSlot(i) ==
    /\ pc[i] = "loop"
    /\ IF stopped[i]
       THEN /\ pc' = [pc EXCEPT ![i] = "done"]
            /\ lockOwner' = IF lockAcq[i]
                            THEN [lockOwner EXCEPT ![targetOf(i)] = NoInst]
                            ELSE lockOwner
       ELSE /\ pc' = [pc EXCEPT ![i] = "slot"]
            /\ UNCHANGED lockOwner
    /\ UNCHANGED <<insts, slotAcq, lockAcq, stopped, connecting, connected,
                   client, conn, setupOk, sem, crashed, sink, budget, again,
                   probe>>

\* Line 130 with stopped false: the loop body starts.  With stopped true:
\* the loop is left and lines 143-148 release what was acquired.
LoopTest(i) ==
    /\ pc[i] = "loop"
    /\ IF stopped[i]
       THEN /\ pc' = [pc EXCEPT ![i] = "done"]
            /\ sem' = IF slotAcq[i]
                      THEN [sem EXCEPT ![procOf(i)] = @ - 1] ELSE sem
            /\ lockOwner' = IF lockAcq[i]
                            THEN [lockOwner EXCEPT ![targetOf(i)] = NoInst]
                            ELSE lockOwner
       ELSE /\ pc' = [pc EXCEPT ![i] = "slot"]
            /\ UNCHANGED <<sem, lockOwner>>
    /\ UNCHANGED <<insts, slotAcq, lockAcq, stopped, connecting, connected,
                   client, conn, setupOk, crashed, sink, budget, again, probe>>

\* Lines 131-134 with a fault: the result of TryAcquire is not looked at.
TrySlotUnchecked(i) ==
    /\ pc[i] = "slot"
    /\ pc' = [pc EXCEPT ![i] = "lock"]
    /\ slotAcq' = [slotAcq EXCEPT ![i] = TRUE]
    /\ sem' = IF sem[procOf(i)] < Capacity
              THEN [sem EXCEPT ![procOf(i)] = @ + 1] ELSE sem
    /\ UNCHANGED <<insts, lockAcq, stopped, connecting, connected, client,
                   conn, setupOk, lockOwner, crashed, sink, budget, again, probe>>

\* Lines 131-134 with a fault: line 134 is missing, lock.Try() follows
\* whether or not the slot is held.
TrySlotNotRequired(i) ==
    /\ pc[i] = "slot"
    /\ LET got == slotAcq[i] \/ sem[procOf(i)] < Capacity
       IN  /\ slotAcq' = [slotAcq EXCEPT ![i] = got]
           /\ sem' = IF ~slotAcq[i] /\ got
                     THEN [sem EXCEPT ![procOf(i)] = @ + 1] ELSE sem
           /\ pc' = [pc EXCEPT ![i] = "lock"]
    /\ UNCHANGED <<insts, lockAcq, stopped, connecting, connected, client,
                   conn, setupOk, lockOwner, crashed, sink, budget, again, probe>>

\* Lines 131-134: TryAcquire(1) unless the slot is held; on with the lock
\* when it is held, else back to the loop test.
TrySlot(i) ==
    /\ pc[i] = "slot"
    /\ LET got == slotAcq[i] \/ sem[procOf(i)] < Capacity
       IN  /\ slotAcq' = [slotAcq EXCEPT ![i] = got]
           /\ sem' = IF ~slotAcq[i] /\ got
                     THEN [sem EXCEPT ![procOf(i)] = @ + 1] ELSE sem
           /\ pc' = [pc EXCEPT ![i] = IF got THEN "lock" ELSE "loop"]
    /\ UNCHANGED <<insts, lockAcq, stopped, connecting, connected, client,
                   conn, setupOk, lockOwner, crashed, sink, budget, again, probe>>

\* Lines 135-138 with a fault: connect() is called whether or not Try()
\* succeeded.
TryLockUnchecked(i) ==
    /\ pc[i] = "lock"
    /\ LET got == lockAcq[i] \/ lockOwner[targetOf(i)] = NoInst
       IN  /\ lockAcq' = [lockAcq EXCEPT ![i] = got]
           /\ lockOwner' = IF ~lockAcq[i] /\ got
                           THEN [lockOwner EXCEPT ![targetOf(i)] = i]
                           ELSE lockOwner
           /\ pc' = [pc EXCEPT ![i] = "connect"]
    /\ UNCHANGED <<insts, slotAcq, stopped, connecting, connected, client,
                   conn, setupOk, sem, crashed, sink, budget, again, probe>>

\* Lines 135-138 with a fault: when Try() fails, the slot is given back
\* before the next iteration.
TryLockReleasingSlot(i) ==
    /\ pc[i] = "lock"
    /\ LET got == lockAcq[i] \/ lockOwner[targetOf(i)] = NoInst
       IN  /\ lockAcq' = [lockAcq EXCEPT ![i] = got]
           /\ lockOwner' = IF ~lockAcq[i] /\ got
                           THEN [lockOwner EXCEPT ![targetOf(i)] = i]
                           ELSE lockOwner
           /\ pc' = [pc EXCEPT ![i] = IF got THEN "connect" ELSE "loop"]
           /\ slotAcq' = [slotAcq EXCEPT ![i] = got]
           /\ sem' = IF got THEN sem ELSE [sem EXCEPT ![procOf(i)] = @ - 1]
    /\ UNCHANGED <<insts, stopped, connecting, connected, client,
                   conn, setupOk, crashed, sink, budget, again, probe>>

\* Lines 135-138: lock.Try() unless the lock is held; connect() is called
\* when it is held, else back to the loop test.
TryLock(i) ==
    /\ pc[i] = "lock"
    /\ LET got == lockAcq[i] \/ lockOwner[targetOf(i)] = NoInst
       IN  /\ lockAcq' = [lockAcq EXCEPT ![i] = got]
           /\ lockOwner' = IF ~lockAcq[i] /\ got
                           THEN [lockOwner EXCEPT ![targetOf(i)] = i]
                           ELSE lockOwner
           /\ pc' = [pc EXCEPT ![i] = IF got THEN "connect" ELSE "loop"]
    /\ UNCHANGED <<insts, slotAcq, stopped, connecting, connected, client,
                   conn, setupOk, sem, crashed, sink, budget, again, probe>>

\* ----------------------------------------------------- connect (85-122) ---
\* connect with a fault: line 86 is missing, connecting is never set.
connectNotConnecting(i) ==
    /\ pc[i] = "connect"
    /\ IF setupOk[targetOf(i)]
       THEN /\ client' = [client EXCEPT ![i] = "open"]
            /\ conn' = [conn EXCEPT ![i] = "dialing"]
            /\ pc' = [pc EXCEPT ![i] = "subscribe"]
       ELSE /\ pc' = [pc EXCEPT ![i] = "loop"]
            /\ UNCHANGED <<client, conn>>
    /\ UNCHANGED <<insts, slotAcq, lockAcq, stopped, connecting, connected,
                   setupOk, sem, lockOwner, crashed, sink, budget, again, probe>>

\* connect with a fault: the reconnect client of line 117 is created before
\* the query is built and validated, so a failed setup leaves a client.
connectClientFirst(i) ==
    /\ pc[i] = "connect"
    /\ connecting' = [connecting EXCEPT ![i] = TRUE]
    /\ client' = [client EXCEPT ![i] = "open"]
    /\ IF setupOk[targetOf(i)]
       THEN /\ conn' = [conn EXCEPT ![i] = "dialing"]
            /\ pc' = [pc EXCEPT ![i] = "subscribe"]
       ELSE /\ pc' = [pc EXCEPT ![i] = "loop"]
            /\ UNCHANGED conn
    /\ UNCHANGED <<insts, slotAcq, lockAcq, stopped, connected, setupOk, sem,
                   lockOwner, crashed, sink, budget, again, probe>>

\* connect() from its first line to the Subscribe call it blocks in:
\* connecting is set; a failing NewQuery or Validate returns to the loop;
\* else a new reconnect client replaces t.client and starts to dial.
connect(i) ==
    /\ pc[i] = "connect"
    /\ connecting' = [connecting EXCEPT ![i] = TRUE]
    /\ IF setupOk[targetOf(i)]
       THEN /\ client' = [client EXCEPT ![i] = "open"]
            /\ conn' = [conn EXCEPT ![i] = "dialing"]
            /\ pc' = [pc EXCEPT ![i] = "subscribe"]
       ELSE /\ pc' = [pc EXCEPT ![i] = "loop"]
            /\ UNCHANGED <<client, conn>>
    /\ UNCHANGED <<insts, slotAcq, lockAcq, stopped, connected, setupOk, sem,
                   lockOwner, crashed, sink, budget, again, probe>>

\* Inside Subscribe (line 119): the dial succeeds.
DialOk(i) ==
    /\ pc[i] = "subscribe" /\ client[i] = "open" /\ conn[i] = "dialing"
    /\ conn' = [conn EXCEPT ![i] = "streaming"]
    /\ UNCHANGED <<insts, pc, slotAcq, lockAcq, stopped, connecting, connected,
                   client, setupOk, sem, lockOwner, crashed, sink, budget, again, probe>>

\* Inside Subscribe: the dial fails or times out.
DialFail(i) ==
    /\ pc[i] = "subscribe" /\ client[i] = "open" /\ conn[i] = "dialing"
    /\ budget > 0
    /\ budget' = budget - 1
    /\ conn' = [conn EXCEPT ![i] = "ended"]
    /\ UNCHANGED <<insts, pc, slotAcq, lockAcq, stopped, connecting, connected,
                   client, setupOk, sem, lockOwner, crashed, sink, again, probe>>

\* Inside Subscribe: the stream of an established subscription breaks.
Drop(i) ==
    /\ pc[i] = "subscribe" /\ client[i] = "open" /\ conn[i] = "streaming"
    /\ budget > 0
    /\ budget' = budget - 1
    /\ conn' = [conn EXCEPT ![i] = "ended"]
    /\ UNCHANGED <<insts, pc, slotAcq, lockAcq, stopped, connecting, connected,
                   client, setupOk, sem, lockOwner, crashed, sink, again, probe>>

\* Inside Subscribe: the transport hands message msg to the ProtoHandler
\* registered at line 111 (handleUpdate), on the goroutine of connect(); an
\* error it returns ends the subscription.
Recv(i, msg, sinkErr) ==
    /\ pc[i] = "subscribe" /\ client[i] = "open" /\ conn[i] = "streaming"
    /\ budget > 0
    /\ budget' = budget - 1
    /\ LET r == handleUpdate(name(i), connected[i], msg, sinkErr)
       IN  /\ connected' = [connected EXCEPT ![i] = r.connected]
           /\ sink' = [sink EXCEPT ![i] = @ \o r.calls]
           /\ conn' = [conn EXCEPT ![i] = IF r.err THEN "ended" ELSE @]
    /\ UNCHANGED <<insts, pc, slotAcq, lockAcq, stopped, connecting, client,
                   setupOk, sem, lockOwner, crashed, again, probe>>

\* disconnected with a fault: when Subscribe and connect() return after a
\* Close, the lock of the target is given up.
disconnectedReleasing(i) ==
    /\ pc[i] = "subscribe"
    /\ conn[i] = "ended" \/ client[i] = "closed"
    /\ connected' = [connected EXCEPT ![i] = FALSE]
    /\ sink' = [sink EXCEPT ![i] = @ \o disconnectedCalls]
    /\ IF client[i] = "closed"
       THEN /\ pc' = [pc EXCEPT ![i] = "loop"]
            /\ conn' = [conn EXCEPT ![i] = "none"]
            /\ lockAcq' = [lockAcq EXCEPT ![i] = FALSE]
            /\ lockOwner' = [lockOwner EXCEPT ![targetOf(i)] = NoInst]
       ELSE /\ conn' = [conn EXCEPT ![i] = "dialing"]
            /\ UNCHANGED <<pc, lockAcq, lockOwner>>
    /\ UNCHANGED <<insts, slotAcq, stopped, connecting, client,
                   setupOk, sem, crashed, budget, again, probe>>

\* disconnected (157-162), the callback given to client.Reconnect at line
\* 117: the reconnect client calls it whenever its subscription has ended
\* (a failed dial, a broken stream, a handler error, Close).  After Close,
\* Subscribe then returns and so does connect(); else the client dials again.
disconnected(i) ==
    /\ pc[i] = "subscribe"
    /\ conn[i] = "ended" \/ client[i] = "closed"
    /\ connected' = [connected EXCEPT ![i] = FALSE]
    /\ sink' = [sink EXCEPT ![i] = @ \o disconnectedCalls]
    /\ IF client[i] = "closed"
       THEN /\ pc' = [pc EXCEPT ![i] = "loop"]
            /\ conn' = [conn EXCEPT ![i] = "none"]
       ELSE /\ conn' = [conn EXCEPT ![i] = "dialing"]
            /\ UNCHANGED pc
    /\ UNCHANGED <<insts, slotAcq, lockAcq, stopped, connecting, client,
                   setupOk, sem, lockOwner, crashed, budget, again, probe>>

\* ------------------------------- disconnect, reconnect (151-166) ---
\* t.client.Close(): through a nil t.client it is a nil pointer dereference,
\* a panic nothing recovers, which ends the process; else the client is
\* closed (closing a closed client changes nothing).
Close(i) ==
    IF client[i] = "nil"
    THEN /\ crashed' = [crashed EXCEPT ![procOf(i)] = TRUE]
         /\ pc' = [j \in Inst |-> IF j \in insts /\ procOf(j) = procOf(i)
                                  THEN "dead" ELSE pc[j]]
         /\ UNCHANGED client
    ELSE /\ client' = [client EXCEPT ![i] = "closed"]
         /\ UNCHANGED <<crashed, pc>>

\* disconnect with a fault: the client is dropped (t.client = nil) once it
\* is closed.
disconnectDroppingClient(i) ==
    /\ pc[i] \notin {"none", "dead"}
    /\ stopped' = [stopped EXCEPT ![i] = TRUE]
    /\ again' = [again EXCEPT ![i] = @ \/ stopped[i]]
    /\ IF client[i] = "nil"
       THEN /\ crashed' = [crashed EXCEPT ![procOf(i)] = TRUE]
            /\ pc' = [j \in Inst |-> IF j \in insts /\ procOf(j) = procOf(i)
                                     THEN "dead" ELSE pc[j]]
            /\ UNCHANGED client
       ELSE /\ client' = [client EXCEPT ![i] = "nil"]
            /\ UNCHANGED <<crashed, pc>>
    /\ UNCHANGED <<insts, slotAcq, lockAcq, connecting, connected, conn,
                   setupOk, sem, lockOwner, sink, budget, probe>>

\* TargetState.disconnect, called by the owner of the instance.
disconnect(i) ==
    /\ pc[i] \notin {"none", "dead"}
    /\ stopped' = [stopped EXCEPT ![i] = TRUE]
    /\ again' = [again EXCEPT ![i] = @ \/ stopped[i]]
    /\ Close(i)
    /\ UNCHANGED <<insts, slotAcq, lockAcq, connecting, connected, conn,
                   setupOk, sem, lockOwner, sink, budget, probe>>

\* reconnect with a fault: it sets stopped as disconnect does.
reconnectStopping(i) ==
    /\ pc[i] \notin {"none", "dead"}
    /\ budget > 0
    /\ budget' = budget - 1
    /\ stopped' = [stopped EXCEPT ![i] = TRUE]
    /\ Close(i)
    /\ UNCHANGED <<insts, slotAcq, lockAcq, connecting, connected,
                   conn, setupOk, sem, lockOwner, sink, again, probe>>

\* TargetState.reconnect, called by the owner of the instance.
reconnect(i) ==
    /\ pc[i] \notin {"none", "dead"}
    /\ budget > 0
    /\ budget' = budget - 1
    /\ Close(i)
    /\ UNCHANGED <<insts, slotAcq, lockAcq, stopped, connecting, connected,
                   conn, setupOk, sem, lockOwner, sink, again, probe>>

\* ----------------------------------------------------- specifications ---
\* The steps of the connectWithLock goroutine of instance i.
Goroutine(i) ==
    \/ LoopTest(i)
    \/ TrySlot(i)
    \/ TryLock(i)
    \/ connect(i)
    \/ disconnected(i)

Next ==
    \E i \in Inst :
        \/ Goroutine(i)
        \/ DialOk(i)
        \/ DialFail(i)
        \/ Drop(i)
        \/ \E msg \in Msgs, sinkErr \in BOOLEAN : Recv(i, msg, sinkErr)
        \/ disconnect(i)
        \/ reconnect(i)

Spec == Init /\ [][Next]_vars
SpecOne == InitOne /\ [][Next]_vars

\* The scheduler runs every goroutine that can take a step, and a dial ends
\* (the query carries TargetDialTimeout, line 109).  Nothing makes the
\* owner call disconnect() or reconnect(), or the target send or fail.
Fairness ==
    \A i \in Inst : /\ WF_vars(Goroutine(i))
                    /\ WF_vars(DialOk(i) \/ DialFail(i))
FairSpec == InitOne /\ [][Next]_vars /\ Fairness

\* ------------------------------------- calls of the pure functions ---
\* The notifications rejectUpdate is called on: one update with path p,
\* alone or beside a well-formed sibling.
Siblings == {"alone", "before", "after"}
probeUpdates(p, sib) ==
    CASE sib = "alone" -> <<p>>
      [] sib = "before" -> <<GoodPath, p>>
      [] OTHER -> <<p, GoodPath>>

InitProbe ==
    /\ insts = {}
    /\ pc = [i \in Inst |-> "none"]
    /\ slotAcq = [i \in Inst |-> FALSE]
    /\ lockAcq = [i \in Inst |-> FALSE]
    /\ stopped = [i \in Inst |-> FALSE]
    /\ connecting = [i \in Inst |-> FALSE]
    /\ connected = [i \in Inst |-> FALSE]
    /\ client = [i \in Inst |-> "nil"]
    /\ conn = [i \in Inst |-> "none"]
    /\ setupOk = [t \in Targets |-> TRUE]
    /\ sem = [p \in Proc |-> 0]
    /\ lockOwner = [t \in Targets |-> NoInst]
    /\ crashed = [p \in Proc |-> FALSE]
    /\ sink = [i \in Inst |-> <<>>]
    /\ budget = 0
    /\ again = [i \in Inst |-> FALSE]
    /\ \/ \E a \in AddrSeqs(MaxAddrs), b \in AddrSeqs(MaxAddrs),
             c \in Creds, d \in Creds :
             probe = [fn |-> "Equal",
                      t |-> [Addresses |-> a, Credentials |-> c],
                      other |-> [Addresses |-> b, Credentials |-> d],
                      res |-> "unset"]
       \/ \E p \in Paths(MaxPathLen), sib \in Siblings :
             probe = [fn |-> "rejectUpdate",
                      note |-> [prefix |-> "", upd |-> probeUpdates(p, sib)],
                      res |-> "unset"]

lifecycleVars == <<insts, pc, slotAcq, lockAcq, stopped, connecting, connected,
                   client, conn, setupOk, sem, lockOwner, crashed, sink,
                   budget, again>>

\* other.Equal is called on the target of a TargetState.
EqualCall ==
    /\ probe.fn = "Equal" /\ probe.res = "unset"
    /\ probe' = [probe EXCEPT !.res = Equal(probe.t, probe.other)]
    /\ UNCHANGED lifecycleVars

\* rejectUpdate is called on a notification.
RejectCall ==
    /\ probe.fn = "rejectUpdate" /\ probe.res = "unset"
    /\ probe' = [probe EXCEPT !.res = rejectUpdate(probe.note)]
    /\ UNCHANGED lifecycleVars

NextProbe == EqualCall \/ RejectCall
SpecProbe == InitProbe /\ [][NextProbe]_vars

\* ================================================================ claims ===
\* An instance is inside connect(): line 139 was reached with the lock held,
\* or connect() is blocked in Subscribe.
inConnect(i) == pc[i] \in {"connect", "subscribe"}

\* C1: at most one instance of the fleet is inside connect() for one target
\* identity at any instant, whatever the interleaving of retries,
\* reconnect() and disconnect().
C1_SingleOwner ==
    \A i \in Inst, j \in Inst :
        (i # j /\ targetOf(i) = targetOf(j) /\ inConnect(i)) => ~inConnect(j)

\* Instance 1 was inside connect(), was stopped and has left its loop, and
\* instance 2 of the other process is now inside connect() for the target.
C1_Witness ==
    /\ pc[1] = "done" /\ connecting[1]
    /\ pc[2] = "subscribe" /\ lockOwner["tA"] = 2

\* C2: in every process, the instances with connecting = true that are inside
\* their connect attempt are at most Capacity.
C2_AdmissionBound ==
    \A p \in Proc :
        Cardinality({i \in Inst : /\ procOf(i) = p /\ connecting[i]
                                  /\ pc[i] = "subscribe"}) <= Capacity

\* Instance 1 is inside its connect attempt with every slot of its process
\* taken, and instance 3 of the same process holds none and is about to
\* call TryAcquire.
C2_Witness ==
    /\ pc[1] = "subscribe" /\ connecting[1]
    /\ sem["p1"] = Capacity
    /\ pc[3] = "slot" /\ ~slotAcq[3]

\* C3 (as claimed): once disconnect() was called, connectWithLock eventually
\* has left its loop, and holds no slot and no lock.
C3_StoppedLeadsToExit ==
    \A i \in Inst :
        stopped[i] ~> (/\ pc[i] = "done"
                       /\ lockOwner[targetOf(i)] # i)

\* The calls of log up to position k whose op is in ops.
Count(log, k, ops) == Cardinality({m \in 1..k : log[m].op \in ops})

\* C4: the sink of a target receives no GnmiUpdate and no Sync before a
\* Connect, and no two Connects without a Disconnect between them.
C4_ConnectBeforeUpdate ==
    \A i \in Inst :
        /\ \A k \in 1..Len(sink[i]) :
              sink[i][k].op \in {"GnmiUpdate", "Sync"} =>
                  \E m \in 1..(k - 1) : sink[i][m].op = "Connect"
        /\ \A k \in 1..Len(sink[i]), l \in 1..Len(sink[i]) :
              (k < l /\ sink[i][k].op = "Connect" /\ sink[i][l].op = "Connect")
                  => \E m \in (k + 1)..(l - 1) : sink[i][m].op = "Disconnect"

\* The sink has received a Connect, an update, a Disconnect and, after a
\* reconnect, a second Connect.
C4_Witness ==
    /\ Count(sink[1], Len(sink[1]), {"Connect"}) >= 2
    /\ Count(sink[1], Len(sink[1]), {"GnmiUpdate", "Sync"}) >= 1

\* C5 (as claimed): Equal returns true exactly when the addresses are equal
\* element by element in order and user name and password match, and false,
\* as a result, otherwise: also when one side has credentials and the other
\* has none.
C5_EqualAsClaimed ==
    (/\ probe.fn = "Equal" /\ probe.res # "unset"
     /\ ~(probe.t.Credentials.isNil /\ probe.other.Credentials.isNil))
    => probe.res =
          IF /\ probe.t.Addresses = probe.other.Addresses
             /\ probe.t.Credentials = probe.other.Credentials
          THEN "true" ELSE "false"

\* A path begins with the element called n.
beginsWith(path, n) == Len(path) >= 1 /\ path[1].name = n

\* C6 (as claimed): a notification with an update whose path begins with
\* netconf-state is rejected, whatever follows that element, also when
\* nothing follows it.
C6_NetconfStateRejected ==
    (/\ probe.fn = "rejectUpdate" /\ probe.res # "unset"
     /\ \E k \in 1..Len(probe.note.upd) :
           beginsWith(probe.note.upd[k], "netconf-state"))
    => probe.res # NoErr

\* A path starts with the container c and the list l, and the list element
\* has the key name = l.
selfKeyed(path, c, l) ==
    /\ Len(path) >= 2
    /\ path[1].name = c /\ path[2].name = l
    /\ path[2].key = l

\* A path matches an entry of the denylist.
denied(path) ==
    \/ selfKeyed(path, "interfaces", "interface")
    \/ selfKeyed(path, "network-instances", "network-instance")
    \/ beginsWith(path, "netconf-state")

\* C7: for a notification of one update, rejectUpdate rejects a path that
\* starts with interfaces, interface{name=interface}, rejects one that
\* starts with network-instances, network-instance{name=network-instance},
\* accepts [interfaces, interface{name=eth0}], and accepts every path that
\* matches no denylist entry.
C7_DenylistCases ==
    (/\ probe.fn = "rejectUpdate" /\ probe.res # "unset"
     /\ Len(probe.note.upd) = 1)
    => LET path == probe.note.upd[1] IN
       /\ selfKeyed(path, "interfaces", "interface") => probe.res # NoErr
       /\ selfKeyed(path, "network-instances", "network-instance")
             => probe.res # NoErr
       /\ path = <<Elem("interfaces", NoKey), Elem("interface", "eth0")>>
             => probe.res = NoErr
       /\ ~denied(path) => probe.res = NoErr

\* rejectUpdate has rejected [interfaces, interface{name=interface}].
C7_Witness ==
    /\ probe.fn = "rejectUpdate"
    /\ probe.note.upd = <<<<Elem("interfaces", NoKey),
                            Elem("interface", "interface")>>>>
    /\ probe.res = "bug for Arista interface path"

\* The last call the sink of instance i has received.
lastCall(log) == log[Len(log)]

\* The notification n as the claim has it forwarded by the TargetState
\* named nm: the prefix target is nm when n has no prefix or an empty prefix
\* target, and is the one of n when that is set.
forwardedAs(n, nm) ==
    [prefix |-> IF n.prefix \in {NilPrefix, ""} THEN nm ELSE n.prefix,
     upd |-> n.upd]

\* C8: a data update that handleUpdate hands on to the sink (one the
\* rejection filter lets through) is forwarded by one GnmiUpdate call, with
\* the prefix target set to the name of the TargetState when the
\* notification has no prefix or an empty prefix target, and with its
\* prefix target unchanged when that is set.
C8_PrefixDefaulting ==
    [][\A i \in Inst, msg \in UpdateMsgs, sinkErr \in BOOLEAN :
          (Recv(i, msg, sinkErr) /\ rejectUpdate(msg.note) = NoErr)
          => /\ Len(sink'[i]) > Len(sink[i])
             /\ lastCall(sink'[i]) =
                   GnmiUpdateCall(forwardedAs(msg.note, name(i)))
             /\ Count(sink'[i], Len(sink'[i]), {"GnmiUpdate"})
                   = Count(sink[i], Len(sink[i]), {"GnmiUpdate"}) + 1]_vars

\* The sink has received an update with the name of the TargetState put in
\* as prefix target, and one that kept the prefix target it came with.
C8_Witness ==
    /\ \E k \in 1..Len(sink[1]) :
          /\ sink[1][k].op = "GnmiUpdate"
          /\ sink[1][k].note.prefix = name(1)
    /\ \E k \in 1..Len(sink[1]) :
          /\ sink[1][k].op = "GnmiUpdate"
          /\ sink[1][k].note.prefix = "other"

\* C9: disconnect() on an instance whose stopped flag is already true ends
\* no process by a panic and leaves stopped true.
C9_DisconnectAgain ==
    [][\A i \in Inst :
          (stopped[i] /\ disconnect(i))
          => (stopped'[i] /\ crashed' = crashed /\ pc'[i] # "dead")]_vars

\* disconnect() was called on a stopped instance, whose process runs on.
C9_Witness ==
    again[1] /\ stopped[1] /\ ~crashed[procOf(1)] /\ pc[1] = "done"

\* C10: with one target, a slot pool of capacity 1 and an uncontended lock:
\* connectWithLock, unless disconnect() or a panic ends it first, gets to
\* call connect(), with the slot and the lock held and connecting true; a
\* call of connect() finds no earlier subscription of the instance alive;
\* and the first update of a subscription, when it has no prefix and passes
\* the filter, has the sink receive Connect and then GnmiUpdate with the
\* name of the target as prefix target.
C10_EndToEnd ==
    /\ <>(stopped[1] \/ crashed[procOf(1)] \/ connecting[1])
    /\ [](pc[1] = "subscribe" =>
             /\ connecting[1] /\ slotAcq[1] /\ lockAcq[1]
             /\ sem[procOf(1)] = 1 /\ lockOwner[targetOf(1)] = 1)
    /\ [][connect(1) => (client[1] # "open" /\ conn[1] = "none")]_vars
    /\ [][\A msg \in UpdateMsgs, sinkErr \in BOOLEAN :
             (/\ Recv(1, msg, sinkErr) /\ ~connected[1]
              /\ msg.note.prefix = NilPrefix /\ rejectUpdate(msg.note) = NoErr)
             => sink'[1] = sink[1] \o
                   <<Call("Connect"),
                     GnmiUpdateCall([prefix |-> name(1),
                                     upd |-> msg.note.upd])>>]_vars

\* The sink has received, first of all, Connect and then an update with the
\* name of the target as prefix target.
C10_Witness ==
    /\ Len(sink[1]) >= 2
    /\ sink[1][1] = Call("Connect")
    /\ sink[1][2].op = "GnmiUpdate" /\ sink[1][2].note.prefix = name(1)
    /\ connecting[1] /\ slotAcq[1] /\ lockAcq[1]

\* The updates of a notification the rejection filter matches no path of.
accepted(upd) == SelectSeq(upd, LAMBDA path : rejectPath(path) = NoErr)

\* C11 (as claimed): when a notification has an update the rejection filter
\* matches and well-formed updates beside it, the sink receives the
\* well-formed ones; only the matched update is discarded.
C11_SiblingsForwarded ==
    [][\A i \in Inst, msg \in UpdateMsgs, sinkErr \in BOOLEAN :
          (/\ Recv(i, msg, sinkErr)
           /\ accepted(msg.note.upd) # msg.note.upd
           /\ accepted(msg.note.upd) # <<>>)
          => /\ Len(sink'[i]) > Len(sink[i])
             /\ lastCall(sink'[i]).op = "GnmiUpdate"
             /\ lastCall(sink'[i]).note.upd = accepted(msg.note.upd)]_vars

\* connect() of instance i returns from a failed setup (lines 89-92, 113-116).
setupFails(i) == connect(i) /\ ~setupOk[targetOf(i)]

\* What a failed setup leaves alone: no client is created, nothing is
\* subscribed, the slot and the lock stay with the instance.
setupFailureKeeps(i) ==
    /\ client'[i] = client[i]
    /\ conn'[i] = conn[i]
    /\ slotAcq'[i] /\ lockAcq'[i]
    /\ sem' = sem /\ lockOwner' = lockOwner
    /\ pc'[i] = "loop"

\* After a failed setup the loop comes to call connect() again, unless the
\* owner has called disconnect() or reconnect() meanwhile.
retriesConnect(i) ==
    (pc[i] = "loop" /\ ~setupOk[targetOf(i)] /\ ~stopped[i])
        ~> (pc[i] = "connect" \/ stopped[i] \/ crashed[procOf(i)])

\* C12 (as claimed): a failed setup returns with connecting still false and
\* without a transport client, and the loop calls connect() again.
C12_ConnectingStillFalse ==
    /\ [][\A i \in Inst :
            setupFails(i) => ~connecting'[i] /\ setupFailureKeeps(i)]_vars
    /\ \A i \in Inst : retriesConnect(i)

\* C12 (amended): a failed setup returns with connecting true, set at the
\* first line of connect(), without having created a transport client and
\* with slot and lock still held; the loop then calls connect() again unless
\* disconnect() or reconnect() was called meanwhile.
C12_SetupFailureRetries ==
    /\ [][\A i \in Inst :
            setupFails(i) => connecting'[i] /\ setupFailureKeeps(i)]_vars
    /\ \A i \in Inst : retriesConnect(i)

\* connect() is called again after a failed setup: connecting was set by
\* the earlier call and there is still no client.
C12_Witness ==
    /\ pc[1] = "connect" /\ connecting[1] /\ client[1] = "nil"
    /\ ~setupOk[targetOf(1)] /\ slotAcq[1] /\ lockAcq[1] /\ ~stopped[1]

\* C13 (as claimed): the sink of a target never receives two Disconnect
\* notifications without a Connect notification between them.
C13_NoDisconnectTwice ==
    \A i \in Inst : \A j, k \in DOMAIN sink[i] :
        (j < k /\ sink[i][j].op = "Disconnect" /\ sink[i][k].op = "Disconnect")
        => \E m \in (j + 1)..(k - 1) : sink[i][m].op = "Connect"

\* Instance i holds a connection slot and the lock of its target.
holdsBoth(i) ==
    /\ slotAcq[i] /\ sem[procOf(i)] >= 1
    /\ lockAcq[i] /\ lockOwner[targetOf(i)] = i

\* C14: an instance executing connect() holds a slot and its target's lock;
\* lock.Try() is reached only with the slot held, connect() only with both
\* held; and a loop iteration of an instance holding the lock goes from
\* TryAcquire to lock.Try() to connect().
C14_ConnectHoldsBoth ==
    /\ [](\A i \in Inst :
            /\ inConnect(i) => holdsBoth(i)
            /\ pc[i] = "lock" => slotAcq[i] /\ sem[procOf(i)] >= 1
            /\ lockAcq[i] => slotAcq[i])
    /\ [][\A i \in Inst :
            /\ TrySlot(i) /\ lockAcq[i] => pc'[i] = "lock"
            /\ TryLock(i) /\ lockAcq'[i] => pc'[i] = "connect"
            /\ TryLock(i) /\ ~lockAcq'[i] => pc'[i] = "loop"]_vars

\* A later iteration of the loop with the lock held: connect() has returned
\* after a reconnect() and is called again, while instance 2 of the other
\* process, which holds a slot, has failed to take the lock.
C14_Witness ==
    /\ pc[1] = "connect" /\ client[1] = "closed" /\ holdsBoth(1)
    /\ pc[2] = "loop" /\ slotAcq[2] /\ ~lockAcq[2]

\* C15: stopped is false at creation, becomes true only in a step of
\* disconnect(), and never becomes false again; connect(), reconnect(),
\* disconnected() and handleUpdate() leave it as it is.
C15_StoppedMonotonic ==
    /\ \A i \in Inst : ~stopped[i]
    /\ [][\A i \in Inst :
            /\ stopped[i] => stopped'[i]
            /\ stopped'[i] # stopped[i] => disconnect(i)
            /\ \/ stopped' = stopped
               \/ ~(\/ connect(i) \/ reconnect(i) \/ disconnected(i)
                    \/ \E msg \in Msgs, sinkErr \in BOOLEAN :
                          Recv(i, msg, sinkErr))]_vars

\* disconnect() has stopped instance 1 and the goroutine has moved on since:
\* disconnected() has run and connect() has returned to the loop test.
C15_Witness ==
    /\ stopped[1] /\ pc[1] = "loop" /\ client[1] = "closed"
    /\ Len(sink[1]) >= 2 /\ ~stopped[2]

\* The goroutine of instance i goes on towards connect(): from Subscribe it
\* returns to the loop test, from there to TryAcquire, lock.Try(), connect().
towardsConnect(i) ==
    CASE pc[i] = "subscribe" -> pc'[i] \in {"subscribe", "loop"}
      [] pc[i] = "loop" -> pc'[i] = "slot"
      [] pc[i] = "slot" -> pc'[i] = "lock"
      [] pc[i] = "lock" -> pc'[i] = "connect"
      [] pc[i] = "connect" -> pc'[i] \in {"subscribe", "loop"}
      [] OTHER -> FALSE

\* C16: reconnect() on an instance that has a transport client closes it
\* and leaves stopped alone; every step the goroutine of a non-stopped
\* holder of slot and lock then takes (a step that moves it on, other than
\* the end of its process) leads on to the next connect() and
\* leaves semaphore and lock untouched; and whatever happens meanwhile, the
\* holder still holds both, so no other running instance of its target has
\* the lock and its process has no more slot holders than Capacity.
C16_ReconnectKeepsSlotAndLock ==
    [][\A i \in Inst :
         /\ (client[i] # "nil" /\ reconnect(i))
            => /\ client'[i] = "closed"
               /\ stopped' = stopped /\ pc' = pc
               /\ sem' = sem /\ lockOwner' = lockOwner
         /\ (~stopped[i] /\ holdsBoth(i))
            => /\ holdsBoth(i)'
               /\ \A j \in Inst \ {i} :
                     (targetOf(j) = targetOf(i)
                      /\ pc'[j] \notin {"done", "dead"}) => ~lockAcq'[j]
               /\ Cardinality({j \in Inst \ {i} :
                                 /\ procOf(j) = procOf(i)
                                 /\ pc'[j] \notin {"done", "dead"}
                                 /\ slotAcq'[j]}) < Capacity
               /\ pc'[i] # pc[i] /\ pc'[i] # "dead"
                  => /\ towardsConnect(i)
                     /\ sem' = sem /\ lockOwner' = lockOwner
                     /\ slotAcq' = slotAcq /\ lockAcq' = lockAcq]_vars

\* After reconnect(), connect() of instance 1 has returned and the loop is
\* about to call lock.Try() with slot and lock still held, while instance 2
\* waits for the same lock and instance 3 for the slot of the process.
C16_Witness ==
    /\ pc[1] = "lock" /\ client[1] = "closed" /\ ~stopped[1] /\ holdsBoth(1)
    /\ budget < FleetBudget
    /\ pc[2] = "lock" /\ ~lockAcq[2]
    /\ pc[3] = "slot" /\ ~slotAcq[3]

\* C17: when rejectUpdate rejects the notification of a message, the sink
\* gets no GnmiUpdate for it, and the subscription goes on as it was, open
\* and streaming, ready for the next message.
C17_RejectionIsSilent ==
    [][\A i \in Inst, msg \in UpdateMsgs, sinkErr \in BOOLEAN :
          (Recv(i, msg, sinkErr)
           /\ rejectUpdate(defaultPrefix(msg.note, name(i))) # NoErr)
          => /\ Count(sink'[i], Len(sink'[i]), {"GnmiUpdate"})
                  = Count(sink[i], Len(sink[i]), {"GnmiUpdate"})
             /\ Len(sink'[i]) <= Len(sink[i]) + 1
             /\ pc'[i] = "subscribe" /\ client'[i] = "open"
             /\ conn'[i] = "streaming"]_vars

\* Two messages of one subscription were handled, one rejected and one
\* forwarded: the sink has the Connect and a single GnmiUpdate, and the
\* subscription is still streaming.
C17_Witness ==
    /\ budget = OneBudget - 2
    /\ pc[1] = "subscribe" /\ client[1] = "open" /\ conn[1] = "streaming"
    /\ Len(sink[1]) = 2
    /\ sink[1][1] = Call("Connect") /\ sink[1][2].op = "GnmiUpdate"

\* The instances of process p whose goroutine holds a connection slot.
slotHolders(p) ==
    {i \in Inst : /\ procOf(i) = p /\ slotAcq[i]
                  /\ pc[i] \notin {"none", "done", "dead"}}

\* C18: an instance that has acquired a slot gives it back only when it
\* leaves the loop, stopped: not when lock.Try() fails, not when connect()
\* returns.  And while Capacity instances of a process hold slots, no other
\* instance of that process is at lock.Try() or in connect(), even when the
\* lock of its target is free.
C18_SlotKeptUntilStopped ==
    /\ [](\A p \in Proc :
            Cardinality(slotHolders(p)) >= Capacity
            => \A j \in Inst :
                  (procOf(j) = p /\ j \notin slotHolders(p))
                  => pc[j] \notin {"lock", "connect", "subscribe"})
    /\ [][\A i \in Inst :
            /\ (slotAcq[i] /\ pc[i] \in {"lock", "connect", "subscribe"}
                /\ pc'[i] = "loop")
               => slotAcq'[i] /\ sem' = sem
            /\ (i \in slotHolders(procOf(i)) /\ ~stopped[i]
                /\ ~crashed'[procOf(i)])
               => i \in slotHolders(procOf(i))'
            /\ sem'[procOf(i)] < sem[procOf(i)] /\ pc'[i] # pc[i]
               => stopped[i] /\ pc'[i] = "done"]_vars

\* Instance 1 holds the only slot of its process and has found the lock of
\* its target taken by instance 2; instance 3 of the same process has no
\* slot although the lock of its own target is free.
C18_Witness ==
    /\ sem[procOf(1)] = Capacity /\ slotAcq[1] /\ ~lockAcq[1] /\ pc[1] = "loop"
    /\ lockOwner[targetOf(1)] = 2 /\ pc[2] = "subscribe"
    /\ ~slotAcq[3] /\ pc[3] = "loop" /\ lockOwner[targetOf(3)] = NoInst
    /\ ~stopped[1] /\ ~stopped[3]

\* connectWithLock of instance i returns in this step.
exits(i) == pc[i] # "done" /\ pc'[i] = "done"

\* C19: the step in which connectWithLock returns takes one permit back to
\* the semaphore if and only if the instance acquired one, and frees the
\* lock if and only if the instance acquired it; nothing else gives a permit
\* back or frees a lock, and a returned goroutine takes no further step.  In
\* every state of a live process the permits taken are as many as the
\* running instances whose slot-acquired flag is true, never below zero, and
\* a lock is owned by a running instance of its target whose lock-acquired
\* flag is true.
C19_ReleaseMatchesAcquire ==
    /\ [](/\ \A p \in Proc :
               /\ sem[p] >= 0
               /\ ~crashed[p]
                  => sem[p] = Cardinality({i \in Inst :
                                             /\ procOf(i) = p /\ slotAcq[i]
                                             /\ pc[i] \notin {"none", "done"}})
          /\ \A t \in Targets :
               lockOwner[t] # NoInst
               => /\ targetOf(lockOwner[t]) = t
                  /\ lockAcq[lockOwner[t]]
                  /\ pc[lockOwner[t]] \notin {"none", "done"}
          /\ \A i \in Inst :
               (lockAcq[i] /\ pc[i] \notin {"none", "done", "dead"})
               => lockOwner[targetOf(i)] = i)
    /\ [][/\ \A i \in Inst :
               /\ exits(i)
                  => /\ sem' = IF slotAcq[i]
                               THEN [sem EXCEPT ![procOf(i)] = @ - 1]
                               ELSE sem
                     /\ lockOwner' = IF lockAcq[i]
                                     THEN [lockOwner EXCEPT
                                             ![targetOf(i)] = NoInst]
                                     ELSE lockOwner
               /\ pc[i] = "done" => pc'[i] \in {"done", "dead"}
          /\ \A p \in Proc :
               sem'[p] < sem[p]
               => \E i \in Inst : procOf(i) = p /\ exits(i) /\ slotAcq[i]
          /\ \A t \in Targets :
               (lockOwner[t] # NoInst /\ lockOwner'[t] # lockOwner[t])
               => exits(lockOwner[t]) /\ lockOwner'[t] = NoInst]_vars

\* Instance 1 has returned and given back what it had acquired: instance 3
\* of its process has since taken the slot and instance 2 the lock of its
\* target.
C19_Witness ==
    /\ pc[1] = "done" /\ slotAcq[1] /\ lockAcq[1]
    /\ sem[procOf(1)] = 1 /\ slotAcq[3] /\ pc[3] = "subscribe"
    /\ lockOwner[targetOf(1)] = 2 /\ lockAcq[2]
=============================================================================
